---- MODULE Spec2Model ----
(***************************************************************************)
(* ParkSphere acquisition pipeline.                                        *)
(*                                                                         *)
(* Part I  (SpecIngest):   the catalog writers of fetch_world_parks_data,  *)
(*          fetch_assets_mvp and ingest_parks_quick over a SQLite store    *)
(*          with a committed image and the working copy of the open        *)
(*          connection.                                                    *)
(* Part II (SpecDownload): the texture download loops of                   *)
(*          fetch_hq_earth_textures, fetch_earth_textures and              *)
(*          create_earth_textures over a texture directory.                *)
(* Part III (SpecFetch):   the orchestrator loops of fetch_world_parks_data *)
(*          and fetch_assets_mvp, one HTTP call at a time, with the call   *)
(*          counters and the pauses between calls.                         *)
(* Part IV (SpecSynth):    the procedural texture generators of            *)
(*          fetch_earth_textures_final, fix_textures and                   *)
(*          create_earth_textures.                                         *)
(* Part V  (SpecProcess):  the image post-processing of fetch_assets_mvp   *)
(*          (download_and_process_image) and the web-optimized copies of   *)
(*          fetch_hq_earth_textures.                                       *)
(* Part VI (SpecV2):       fetch_earth_textures_v2: the procedural         *)
(*          textures written first, then the download loop.                *)
(* Part VII (SpecFix):     fix_textures: the fallback textures created     *)
(*          where a file is missing or too small.                          *)
(* Part VIII (SpecClouds): the cloud loop of the three generators: the     *)
(*          alpha a pixel accumulates from the blobs that cover it.        *)
(* Part IX (SpecApi):      GET /api/parks of main.py and main_world.py.    *)
(***************************************************************************)
EXTENDS Integers, Sequences, FiniteSets, TLC

VARIABLES
    \* ---- Part I: ingestion into the relational store
    script,     \* which ingestion script runs
    parks,      \* the entity list loaded from the CSV (read-only)
    provider,   \* what the providers answer for each park id
    db,         \* the committed store: [parks, images]
    tx,         \* the working copy of the open connection, or NoTx
    pc,         \* position of the ingestion process
    i,          \* index of the park being processed
    args,       \* the fetched arguments of save_park_data
    pending,    \* image inserts of the current park not yet executed
    runs,       \* number of runs started so far
    txlog,      \* the statements executed in the open transaction
    clean,      \* no run so far was cut by a crash
    finished,   \* the most recent run returned (was not cut by a crash)
    counts,     \* image row count at the end of each completed run
    lost,       \* a crash has discarded executed, uncommitted writes
    atstart,    \* the committed store when the most recent run started
    \* ---- Part II: texture downloads
    dscript,    \* which texture script runs
    files,      \* the texture directory: the file at each destination path
    dpc,        \* position of the texture script
    tex,        \* index of the texture being processed
    cand,       \* index of the candidate url being tried
    attempt,    \* loop index of download_with_retry (attempts made so far)
    log,        \* attempts issued for the current texture: [cand, ok]
    rets,       \* result of each finished candidate of the current texture
    delays,     \* sleeps made while trying the current candidate
    last,       \* the most recent attempt and its response
    druns,      \* number of runs of the texture script started so far
    primary,    \* how the first candidate of the current texture failed
    writes,     \* times the file of the current texture was opened for writing
    synthetic,  \* textures whose file was written by the procedural code
    exhausted,  \* textures whose candidates all failed in the current run
    \* ---- Part III: the orchestrator, call by call
    fscript,    \* which fetcher runs
    fparks,     \* the entity list loaded from the CSV (read-only)
    fdb,        \* the committed store: [parks, images]
    fpc,        \* position of the orchestrator
    fi,         \* index of the park being processed
    fargs,      \* what the fetch functions returned for the current park
    api_calls,  \* self.api_calls of WorldParksFetcher
    calls,      \* HTTP calls issued by the fetch functions, per provider
    since,      \* seconds since the start of the last call to each host
    mingap,     \* shortest time seen between two calls to the same host
    failed,     \* providers whose call failed for the current park
    saves,      \* the calls of save_park_data made so far: [park, ok]
    saved,      \* the failed providers and the rows of the latest save
    lookup,     \* the answer of the most recent NASA assets lookup
    photo_count, \* the photo count asked of Unsplash for the current park
    \* ---- Part IV: the procedural generators
    gen,        \* which generator script runs
    features,   \* the point-feature table of the night layer (read-only)
    spc,        \* position of the generator
    rng,        \* state of numpy's global random generator
    todo,       \* features of the night layer not yet placed
    night,      \* the night raster being composited
    naive,      \* per pixel, the plain sum of the contributions placed
    layers,     \* layers rendered so far by the current invocation
    outs,       \* the output of each finished invocation
    \* ---- Part V: image post-processing
    psite,      \* which post-processing code runs
    payloads,   \* the payloads to process, in order (read-only)
    ppc,        \* position of the post-processing loop
    pk,         \* index of the payload being processed
    derivs,     \* the derivatives written for the latest payload
    recorded,   \* indices of the payloads recorded as assets
    \* ---- Part VI: fetch_earth_textures_v2
    vserver,    \* the textures whose download succeeds (read-only)
    vfiles,     \* the texture directory: the file at each destination
    vpc,        \* position of main
    vtex,       \* index of the texture of the download loop
    vruns,      \* number of runs started so far
    attempted,  \* textures the current run has requested
    \* ---- Part VII: fix_textures
    xday,       \* what is at earth_day.jpg
    xfiles,     \* the file at the path of each fallback texture
    xpc,        \* position of fix_textures
    xk,         \* index of the entry of textures being looked at
    bound,      \* the local names width, height have been assigned
    \* ---- Part VIII: the cloud loop
    cgen,       \* the generator that runs
    promotion,  \* how the installed numpy types uint8 scalar + Python int
    cpc,        \* position of the cloud loop
    clouds,     \* the alpha channel of one row of the cloud raster
    cprev,      \* the alpha channel before the most recent blob
    cblob,      \* centres of the blobs placed so far, the most recent last
    \* ---- Part IX: GET /api/parks
    app,        \* the server module that runs
    listing,    \* the parks the server holds, in listing order
    request,    \* the query parameters of the most recent request
    response    \* the parks of the most recent response

ivars == <<script, parks, provider, db, tx, pc, i, args, pending, runs,
           txlog, clean, finished, counts, lost, atstart>>

dvars == <<dscript, files, dpc, tex, cand, attempt, log, rets, delays, last,
           druns, primary, writes, synthetic, exhausted>>

fvars == <<fscript, fparks, fdb, fpc, fi, fargs, api_calls, calls, since,
           mingap, failed, saves, saved, lookup, photo_count>>

svars == <<gen, features, spc, rng, todo, night, naive, layers, outs>>

pvars == <<psite, payloads, ppc, pk, derivs, recorded>>

vvars == <<vserver, vfiles, vpc, vtex, vruns, attempted>>

xvars == <<xday, xfiles, xpc, xk, bound>>

cvars == <<cgen, promotion, cpc, clouds, cprev, cblob>>

avars == <<app, listing, request, response>>

vars == <<ivars, dvars, fvars, svars, pvars, vvars, xvars, cvars, avars>>

----------------------------------------------------------------------------
(* Bounds of the model *)

MaxParks == 2
MaxRuns == 2
MaxTextures == 2

----------------------------------------------------------------------------
(* Part I: data *)

WORLD == "fetch_world_parks_data"
MVP == "fetch_assets_mvp"
QUICK == "ingest_parks_quick"
Scripts == {WORLD, MVP, QUICK}

Codes == {"a", "b"}

NoTx == [parks |-> {}, images |-> <<>>, open |-> FALSE]

Store(p, im) == [parks |-> p, images |-> im, open |-> TRUE]

\* The arguments a fetch hands to save_park_data.  photos carry whether the
\* photo's own download decodes (fetch_assets_mvp only reads it).
NoAssets ==
    [nps_images |-> <<>>, unsplash_photos |-> <<>>, nasa_validated |-> FALSE,
     satellite_url |-> "", nps_data |-> FALSE]

OnePhoto ==
    [nps_images |-> <<>>,
     unsplash_photos |-> <<[url |-> "p1", decodes |-> TRUE]>>,
     nasa_validated |-> TRUE, satellite_url |-> "", nps_data |-> TRUE]

AllAssets ==
    [nps_images |-> <<"n1">>,
     unsplash_photos |-> <<[url |-> "p1", decodes |-> FALSE],
                           [url |-> "p2", decodes |-> TRUE]>>,
     nasa_validated |-> TRUE, satellite_url |-> "/assets/nasa_sat.jpg",
     nps_data |-> TRUE]

Responses == {NoAssets, OnePhoto, AllAssets}

\* Entity lists: ids 1..n in order, each with a code.
ParkLists ==
    UNION {{[k \in 1..n |-> [id |-> k, code |-> c[k]]] : c \in [1..n -> Codes]}
           : n \in 1..MaxParks}

Ids == {parks[k].id : k \in 1..Len(parks)}

----------------------------------------------------------------------------
(* Part I: the store *)

\* INSERT OR REPLACE INTO parks: the rows that conflict with the new row on
\* the PRIMARY KEY id or on the UNIQUE code column are deleted, then the row
\* is inserted.
InsertOrReplace(table, row) ==
    {r \in table : r.id # row.id /\ r.code # row.code} \cup {row}

\* INSERT INTO images: a plain append, the row id is the position.
InsertImage(images, row) == Append(images, row)

\* The parks row a script writes for a park with the fetched arguments.
ParkRow(s, park, a, now) ==
    [id |-> park.id,
     code |-> park.code,
     summary |-> IF s = MVP /\ a.nps_data THEN "nps" ELSE "csv",
     nasa_validated |-> IF s = WORLD THEN a.nasa_validated ELSE FALSE,
     updated_at |-> now]

Img(pid, type, url) == [park_id |-> pid, type |-> type, url |-> url]

\* nature_photos of get_mock_images, by index 0..4.
MockUrl == <<"m0", "m1", "m2", "m3", "m4">>

NumMockPhotos == 5

get_mock_images(park_id) ==
    LET start_idx == (park_id - 1) % Len(MockUrl)
    IN  [k \in 1..NumMockPhotos |->
            MockUrl[((start_idx + (k - 1)) % Len(MockUrl)) + 1]]

\* The image inserts save_park_data (or ingest_all_parks) issues for one
\* park, in order; insert is FALSE for a photo fetch_assets_mvp skips because
\* download_and_process_image returned None.
WorldInserts(pid, a) ==
    [k \in 1..Len(a.nps_images) |->
        [row |-> Img(pid, "nps", a.nps_images[k]), insert |-> TRUE]]
    \o [k \in 1..Len(a.unsplash_photos) |->
        [row |-> Img(pid, "photo", a.unsplash_photos[k].url), insert |-> TRUE]]
    \o (IF a.satellite_url # ""
        THEN <<[row |-> Img(pid, "satellite", a.satellite_url), insert |-> TRUE]>>
        ELSE <<>>)

MvpInserts(pid, a) ==
    [k \in 1..Len(a.unsplash_photos) |->
        [row |-> Img(pid, "photo", a.unsplash_photos[k].url),
         insert |-> a.unsplash_photos[k].decodes]]

QuickInserts(pid) ==
    LET images == get_mock_images(pid)
    IN  [k \in 1..Len(images) |->
            [row |-> Img(pid, "photo", images[k]), insert |-> TRUE]]
        \o <<[row |-> Img(pid, "satellite", "mapbox"), insert |-> TRUE]>>

ImageInserts(s, pid, a) ==
    CASE s = WORLD -> WorldInserts(pid, a)
      [] s = MVP -> MvpInserts(pid, a)
      [] OTHER -> QuickInserts(pid)

\* One connection per park in the fetchers; one for the whole run in
\* ingest_parks_quick.
CommitsPerPark(s) == s \in {WORLD, MVP}

----------------------------------------------------------------------------
(* Part I: the ingestion process *)

InitIngestVars ==
    /\ script \in Scripts
    /\ parks \in ParkLists
    /\ provider \in [1..Len(parks) -> IF script = QUICK THEN {NoAssets} ELSE Responses]
    /\ db = [parks |-> {}, images |-> <<>>, open |-> TRUE]
    /\ tx = NoTx
    /\ pc = "idle"
    /\ i = 0
    /\ args = NoAssets
    /\ pending = <<>>
    /\ runs = 0
    /\ txlog = <<>>
    /\ clean = TRUE
    /\ finished = FALSE
    /\ counts = <<>>
    /\ lost = FALSE
    /\ atstart = [parks |-> {}, images |-> <<>>, open |-> TRUE]

\* The script is started: fetch_all_parks_data / fetch_all_assets enter their
\* loop; ingest_all_parks opens its one connection first.
StartRun ==
    /\ pc = "idle"
    /\ runs < MaxRuns
    /\ runs' = runs + 1
    /\ i' = 1
    /\ IF CommitsPerPark(script)
       THEN /\ pc' = "fetch"
            /\ tx' = tx
       ELSE /\ pc' = "save"
            /\ tx' = Store(db.parks, db.images)
    /\ txlog' = <<>>
    /\ finished' = FALSE
    /\ atstart' = db
    /\ UNCHANGED <<script, parks, provider, db, args, pending, clean, counts, lost>>
    /\ UNCHANGED <<dvars, fvars, svars, pvars, vvars, xvars, cvars, avars>>

\* The provider calls of one loop iteration, up to the call of save_park_data.
FetchPark ==
    /\ pc = "fetch"
    /\ args' = provider[parks[i].id]
    /\ pc' = "save"
    /\ UNCHANGED <<script, parks, provider, db, tx, i, pending, runs, txlog,
                   clean, finished, counts, lost>>
    /\ UNCHANGED <<atstart, dvars, fvars, svars, pvars, vvars, xvars, cvars, avars>>

\* save_park_data with conn.commit() placed right after the parks statement.
UpsertPark_CommitsEarly ==
    /\ pc = "save"
    /\ LET conn == IF CommitsPerPark(script) THEN Store(db.parks, db.images) ELSE tx
           a == IF script = QUICK THEN NoAssets ELSE args
       IN  /\ tx' = Store(InsertOrReplace(conn.parks, ParkRow(script, parks[i], a, runs)),
                          conn.images)
           /\ pending' = ImageInserts(script, parks[i].id, a)
    /\ db' = tx'
    /\ txlog' = Append(IF CommitsPerPark(script) THEN <<>> ELSE txlog,
                        <<"park", parks[i].id>>)
    /\ pc' = "images"
    /\ UNCHANGED <<script, parks, provider, i, args, runs, clean, finished,
                   counts, lost>>
    /\ UNCHANGED <<atstart, dvars, fvars, svars, pvars, vvars, xvars, cvars, avars>>

\* save_park_data up to the end of the parks statement: connect (the fetchers)
\* and INSERT OR REPLACE INTO parks, inside the connection's transaction.
UpsertPark ==
    /\ pc = "save"
    /\ LET conn == IF CommitsPerPark(script) THEN Store(db.parks, db.images) ELSE tx
           a == IF script = QUICK THEN NoAssets ELSE args
       IN  /\ tx' = Store(InsertOrReplace(conn.parks, ParkRow(script, parks[i], a, runs)),
                          conn.images)
           /\ pending' = ImageInserts(script, parks[i].id, a)
    /\ txlog' = Append(IF CommitsPerPark(script) THEN <<>> ELSE txlog,
                        <<"park", parks[i].id>>)
    /\ pc' = "images"
    /\ UNCHANGED <<script, parks, provider, db, i, args, runs, clean, finished,
                   counts, lost>>
    /\ UNCHANGED <<atstart, dvars, fvars, svars, pvars, vvars, xvars, cvars, avars>>

\* One iteration of the image loops of save_park_data.
InsertNextImage ==
    /\ pc = "images"
    /\ pending # <<>>
    /\ tx' = IF Head(pending).insert
             THEN Store(tx.parks, InsertImage(tx.images, Head(pending).row))
             ELSE tx
    /\ txlog' = IF Head(pending).insert
                THEN Append(txlog, <<"image", Head(pending).row.park_id>>)
                ELSE txlog
    /\ pending' = Tail(pending)
    /\ UNCHANGED <<script, parks, provider, db, pc, i, args, runs, clean,
                   finished, counts, lost>>
    /\ UNCHANGED <<atstart, dvars, fvars, svars, pvars, vvars, xvars, cvars, avars>>

\* The end of the run: the loop is left and the script returns.
FinishRun(images) ==
    /\ pc' = "idle"
    /\ finished' = TRUE
    /\ counts' = Append(counts, Len(images))

\* conn.commit(); conn.close() at the end of save_park_data, and the loop's
\* step to the next park.
CommitPark ==
    /\ pc = "images"
    /\ pending = <<>>
    /\ CommitsPerPark(script)
    /\ db' = tx
    /\ tx' = NoTx
    /\ IF i < Len(parks)
       THEN /\ i' = i + 1
            /\ pc' = "fetch"
            /\ UNCHANGED <<finished, counts>>
       ELSE /\ i' = i
            /\ FinishRun(tx.images)
    /\ txlog' = <<>>
    /\ UNCHANGED <<script, parks, provider, args, pending, runs, clean, lost>>
    /\ UNCHANGED <<atstart, dvars, fvars, svars, pvars, vvars, xvars, cvars, avars>>

\* ingest_all_parks: the next park of the loop, and after the last park the
\* one conn.commit(); conn.close().
NextParkQuick ==
    /\ pc = "images"
    /\ pending = <<>>
    /\ ~CommitsPerPark(script)
    /\ IF i < Len(parks)
       THEN /\ i' = i + 1
            /\ pc' = "save"
            /\ UNCHANGED <<db, tx, txlog, finished, counts>>
       ELSE /\ i' = i
            /\ db' = tx
            /\ tx' = NoTx
            /\ txlog' = <<>>
            /\ FinishRun(tx.images)
    /\ UNCHANGED <<script, parks, provider, args, pending, runs, clean, lost>>
    /\ UNCHANGED <<atstart, dvars, fvars, svars, pvars, vvars, xvars, cvars, avars>>

\* The process dies (kill, power loss, uncaught exception): the open
\* transaction is rolled back, the committed store stays.
Crash ==
    /\ pc # "idle"
    /\ pc' = "idle"
    /\ tx' = NoTx
    /\ pending' = <<>>
    /\ txlog' = <<>>
    /\ clean' = FALSE
    /\ lost' = (lost \/ (pending # <<>> /\ \E k \in 1..Len(txlog) : txlog[k][1] = "image"))
    /\ UNCHANGED <<script, parks, provider, db, i, args, runs, finished, counts>>
    /\ UNCHANGED <<atstart, dvars, fvars, svars, pvars, vvars, xvars, cvars, avars>>


----------------------------------------------------------------------------
(* Part II: data *)

HQ == "fetch_hq_earth_textures"
BASIC == "fetch_earth_textures"
CREATE == "create_earth_textures"
TextureScripts == {HQ, BASIC, CREATE}

\* Number of candidate urls of each texture, in the order of the script's
\* table (fetch_earth_textures: the primary and the fallback url).
HqUrls == <<4, 3, 2, 2, 2>>
BasicUrls == <<2, 2, 2, 2, 2>>
CreateUrls == <<2, 1>>

UrlTable(s) ==
    CASE s = HQ -> HqUrls
      [] s = BASIC -> BasicUrls
      [] OTHER -> CreateUrls

Min(a, b) == IF a < b THEN a ELSE b

NumTextures(s) == Min(Len(UrlTable(s)), MaxTextures)

NumUrls(s, t) == UrlTable(s)[t]

\* download_with_retry(url, dest_path, max_retries=3)
max_retries == 3

\* time.sleep(2) between attempts
RetryDelay == 2

\* the "good size" of the skip check of fetch_hq_earth_textures.main
MinGoodSize == 100000

\* iter_content(chunk_size=8192)
ChunkSize == 8192

Absent == [exists |-> FALSE, size |-> 0, whole |-> FALSE]

File(size, whole) == [exists |-> TRUE, size |-> size, whole |-> whole]

\* What a server answers to one GET.  ok: status 200 and the whole body of
\* size bytes; cut: status 200 and the stream breaks after size bytes of a
\* longer body; the others carry no body the scripts read.
Response(kind, size) == [kind |-> kind, size |-> size]

HttpResponses ==
    {Response("ok", n) : n \in {0, MinGoodSize, MinGoodSize + 1}}
    \cup {Response("cut", n) : n \in {ChunkSize, MinGoodSize + 1}}
    \cup {Response(k, 0) : k \in {"http404", "http429", "http500", "neterr"}}

NoAttempt ==
    [tex |-> 0, cand |-> 0, attempt |-> 0, kind |-> "none", size |-> 0,
     ok |-> FALSE, after |-> "none"]

----------------------------------------------------------------------------
(* Part II: one download *)

\* Attempts per candidate: the retry loop of download_with_retry; one plain
\* call in the other two scripts.
Retries(s) == IF s = HQ THEN max_retries ELSE 1

\* Whether the script takes the attempt for a success: download_with_retry
\* returns True once the body is written without an exception, download_file
\* returns without raising, create_earth_textures sees status_code == 200.
Succeeds(s, r) == r.kind = "ok"

\* The destination file after the attempt.  The streaming scripts open the
\* path for writing only after the status check and write chunk by chunk, so
\* a broken stream leaves the chunks received; create_earth_textures writes
\* response.content in one piece.
FileAfter(s, f, r) ==
    IF r.kind = "ok" THEN File(r.size, TRUE)
    ELSE IF r.kind = "cut" /\ s # CREATE THEN File(r.size, FALSE)
    ELSE f

\* Whether the attempt opens the destination path for writing: open() comes
\* after raise_for_status (after the status check in create_earth_textures),
\* so an error status or a failed connection writes nothing.
Wrote_BeforeStatusCheck(s, r) == TRUE

Wrote(s, r) == r.kind = "ok" \/ (r.kind = "cut" /\ s # CREATE)

\* The file the procedural branch of create_earth_textures saves; no script
\* that synthesizes reads its size.
Synthetic == File(MinGoodSize + 1, TRUE)

\* for attempt in range(max_retries): the failed attempt was the last one.
CandidateExhausted_OneMore(s, a, r) == a + 1 >= Retries(s) + 1

CandidateExhausted_4xxPermanent(s, a, r) ==
    a + 1 >= Retries(s) \/ r.kind = "http404"

CandidateExhausted(s, a, r) == a + 1 >= Retries(s)

\* if attempt < max_retries - 1: time.sleep(2)
SleepsAfter_Always(s, a) == s = HQ

SleepsAfter(s, a) == s = HQ /\ a < max_retries - 1

\* The loop over the candidates stops at the first success (break).
Break_Never(success) == FALSE

Break(success) == success

\* The skip check at the head of the texture loop.
Skips_Never(s, f) == FALSE

Skips(s, f) ==
    CASE s = HQ -> f.exists /\ f.size > MinGoodSize
      [] s = BASIC -> f.exists
      [] OTHER -> FALSE

----------------------------------------------------------------------------
(* Part II: the texture scripts *)

InitDownloadVars ==
    /\ dscript \in TextureScripts
    /\ files = [t \in 1..NumTextures(dscript) |-> Absent]
    /\ dpc = "idle"
    /\ tex = 0
    /\ cand = 0
    /\ attempt = 0
    /\ log = <<>>
    /\ rets = <<>>
    /\ delays = <<>>
    /\ last = NoAttempt
    /\ druns = 0
    /\ primary = "none"
    /\ writes = 0
    /\ synthetic = {}
    /\ exhausted = {}

\* main() is started.
StartDownloads ==
    /\ dpc = "idle"
    /\ druns < MaxRuns
    /\ druns' = druns + 1
    /\ tex' = 1
    /\ dpc' = "head"
    /\ exhausted' = {}
    /\ UNCHANGED <<dscript, files, cand, attempt, log, rets, delays, last,
                   primary, writes, synthetic>>
    /\ UNCHANGED <<ivars, fvars, svars, pvars, vvars, xvars, cvars, avars>>

\* The texture loop moves to the next texture; after the last one main()
\* ends, create_earth_textures goes on to its procedural part.
NextTexture ==
    /\ tex' = tex + 1
    /\ dpc' = IF tex < NumTextures(dscript) THEN "head"
              ELSE IF dscript = CREATE THEN "synth" ELSE "idle"

\* The head of the texture loop: skip a texture that is already there, or
\* start with its first candidate.
TextureHead ==
    /\ dpc = "head"
    /\ log' = <<>>
    /\ rets' = <<>>
    /\ delays' = <<>>
    /\ primary' = "none"
    /\ writes' = 0
    /\ IF Skips(dscript, files[tex])
       THEN /\ NextTexture
            /\ UNCHANGED <<cand, attempt>>
       ELSE /\ dpc' = "attempt"
            /\ cand' = 1
            /\ attempt' = 0
            /\ tex' = tex
    /\ UNCHANGED <<dscript, files, last, druns, synthetic, exhausted>>
    /\ UNCHANGED <<ivars, fvars, svars, pvars, vvars, xvars, cvars, avars>>

\* One attempt against the current candidate with the server answering r:
\* one iteration of the retry loop of download_with_retry, one call of
\* download_file, or one iteration of the url loop of create_earth_textures;
\* with the return to the candidate loop when the attempt ends the call.
DownloadAttempt(r) ==
    LET success == Succeeds(dscript, r)
        returns == success \/ CandidateExhausted(dscript, attempt, r)
        before == IF attempt = 0 THEN <<>> ELSE delays
        slept == IF ~success /\ SleepsAfter(dscript, attempt)
                 THEN Append(before, RetryDelay) ELSE before
    IN  /\ dpc = "attempt"
        /\ files' = [files EXCEPT ![tex] = FileAfter(dscript, @, r)]
        /\ log' = Append(log, [cand |-> cand, ok |-> success])
        /\ last' = [tex |-> tex, cand |-> cand, attempt |-> attempt + 1,
                    kind |-> r.kind, size |-> r.size, ok |-> success,
                    after |-> IF attempt = 0 THEN "none" ELSE last.kind]
        /\ rets' = IF returns THEN Append(rets, success) ELSE rets
        /\ delays' = slept
        /\ primary' = IF cand > 1 THEN primary
                       ELSE IF r.kind = "http404" /\ primary # "other"
                       THEN "permanent" ELSE "other"
        /\ writes' = IF Wrote(dscript, r) THEN writes + 1 ELSE writes
        /\ synthetic' = IF Wrote(dscript, r) THEN synthetic \ {tex}
                         ELSE synthetic
        /\ exhausted' = IF returns /\ ~success /\ cand >= NumUrls(dscript, tex)
                         THEN exhausted \cup {tex} ELSE exhausted
        /\ IF ~returns
           THEN \* the next iteration of the retry loop
                /\ attempt' = attempt + 1
                /\ UNCHANGED <<tex, cand, dpc>>
           ELSE IF ~Break(success) /\ cand < NumUrls(dscript, tex)
           THEN \* the next candidate url
                /\ cand' = cand + 1
                /\ attempt' = 0
                /\ UNCHANGED <<tex, dpc>>
           ELSE \* success, or no candidate left
                /\ NextTexture
                /\ UNCHANGED <<cand, attempt>>
        /\ UNCHANGED <<dscript, druns>>

Attempt ==
    /\ \E r \in HttpResponses : DownloadAttempt(r)
    /\ UNCHANGED <<ivars, fvars, svars, pvars, vvars, xvars, cvars, avars>>

\* The procedural part of create_earth_textures for the layers it has urls
\* for: "if we still don't have a day (night) texture, create one".
Synthesize ==
    /\ dpc = "synth"
    /\ files' = [t \in DOMAIN files |->
                    IF files[t].exists THEN files[t] ELSE Synthetic]
    /\ synthetic' = synthetic \cup {t \in DOMAIN files : ~files[t].exists}
    /\ dpc' = "idle"
    /\ UNCHANGED <<dscript, tex, cand, attempt, log, rets, delays, last, druns,
                   primary, writes, exhausted>>
    /\ UNCHANGED <<ivars, fvars, svars, pvars, vvars, xvars, cvars, avars>>

----------------------------------------------------------------------------
(* Part III: data *)

Fetchers == {WORLD, MVP}

\* The provider classes whose calls the fetch functions issue, and the image
\* hosts save_park_data downloads from (generate_blur_hash on the NPS image
\* urls, download_and_process_image on the Unsplash photo urls).
Providers == {"nasa", "nps", "unsplash"}

Hosts == Providers \cup {"nps_images", "unsplash_images"}

\* RATE_LIMIT_DELAY of the two fetchers, in seconds
WorldRateLimitDelay == 2

MvpRateLimitDelay == 72

RATE_LIMIT_DELAY(s) == IF s = WORLD THEN WorldRateLimitDelay ELSE MvpRateLimitDelay

\* Seconds one HTTP call may take before it returns or raises.
CallSeconds == {0, 1}

\* Entity lists of the orchestrator: ids 1..n in order with pairwise distinct
\* codes; us tells whether country is "United States" (fetch_assets_mvp
\* reads the US list only).
FetchLists ==
    UNION {{[k \in 1..n |-> [id |-> k, code |-> k, us |-> u[k]]]
                : u \in [1..n -> BOOLEAN]} : n \in 1..MaxParks}

\* What the two NASA endpoints, the NPS endpoint and the Unsplash search
\* answer.  raise: requests.get or the decoding raises (network error, and
\* with raise_for_status any 4xx/5xx); the others are read from the reply:
\* a reply without results (empty), with NPS images, with two photos.
NasaAssetsOutcomes == {"raise", "non200", "count0", "found"}

NasaImageryOutcomes == {"raise", "notimage", "image"}

NpsOutcomes == {"raise", "images"}

UnsplashOutcomes == {"raise", "empty", "two"}

\* The calls that brought no asset because the provider failed.
Failure(o) == o \in {"raise", "non200", "notimage"}

\* try: ... except Exception: every fetch function returns its empty result
\* when the call raises; nothing escapes to the loop.
Caught_Never(o) == o # "raise"

Caught(o) == TRUE

\* park_data.get("images", [])[:5]
MaxNpsImages == 5

\* The images the NPS reply lists for a park: the first park of the list has
\* more than the script takes, the others one.
NpsListed(pid) == IF pid = 1 THEN MaxNpsImages + 1 ELSE 1

NpsImages(o, pid) ==
    IF o = "images"
    THEN [k \in 1..Min(MaxNpsImages, NpsListed(pid)) |-> "n1"]
    ELSE <<>>

\* data.get("results", [])[:count]
UnsplashPhotos(o, count) ==
    IF o = "two"
    THEN SubSeq(<<[url |-> "p1", decodes |-> FALSE],
                  [url |-> "p2", decodes |-> TRUE]>>, 1, Min(2, count))
    ELSE <<>>

\* The photo count the loop asks of Unsplash: max(1, 5 - len(nps_images)) in
\* fetch_all_parks_data, the default count of fetch_unsplash_photos in
\* fetch_all_assets.
TotalImages == 5

DefaultCount == 5

Max(a, b) == IF a > b THEN a ELSE b

PhotoCount_NoFloor(s, nps_images) ==
    IF s = WORLD THEN TotalImages - Len(nps_images) ELSE DefaultCount

PhotoCount(s, nps_images) ==
    IF s = WORLD THEN Max(1, TotalImages - Len(nps_images)) ELSE DefaultCount

----------------------------------------------------------------------------
(* Part III: the clock of the pauses *)

\* d seconds pass; the model keeps a time only up to the pause of the script.
Elapse(f, d) == [h \in Hosts |-> Min(RATE_LIMIT_DELAY(fscript), f[h] + d)]

\* The times after a call to host h that took d seconds.
Called(f, h, d) == Elapse([f EXCEPT ![h] = 0], d)

\* time.sleep(RATE_LIMIT_DELAY)
Slept(f) == Elapse(f, RATE_LIMIT_DELAY(fscript))

\* The shortest gaps after one more call to host h.
Gaps(g, f, h) == [g EXCEPT ![h] = Min(@, f[h])]

\* The order of the calls in the loop body of the two fetchers.
FirstStage(s) == IF s = WORLD THEN "nasa" ELSE "unsplash"

AfterNasa(s, park) ==
    IF s = MVP THEN "save" ELSE IF park.us THEN "nps" ELSE "unsplash"

AfterNps(s) == IF s = WORLD THEN "unsplash" ELSE "imagery"

AfterUnsplash(s) == IF s = WORLD THEN "save" ELSE "nps"

\* Where the loop goes after a call with outcome o.
Proceed(o, stage) == IF Caught(o) THEN stage ELSE "aborted"

----------------------------------------------------------------------------
(* Part III: the orchestrator *)

InitFetchVars ==
    /\ fscript \in Fetchers
    /\ fparks \in FetchLists
    /\ fscript = MVP => \A k \in 1..Len(fparks) : fparks[k].us
    /\ fdb = [parks |-> {}, images |-> <<>>]
    /\ fpc = "idle"
    /\ fi = 0
    /\ fargs = NoAssets
    /\ api_calls = [p \in Providers |-> 0]
    /\ calls = [p \in Providers |-> 0]
    /\ since = [h \in Hosts |-> RATE_LIMIT_DELAY(fscript)]
    /\ mingap = [h \in Hosts |-> RATE_LIMIT_DELAY(fscript)]
    /\ failed = {}
    /\ saves = <<>>
    /\ saved = [failed |-> {}, rows |-> <<>>]
    /\ lookup = "none"
    /\ photo_count = 0

\* fetch_all_parks_data / fetch_all_assets enter their loop.
StartFetching ==
    /\ fpc = "idle"
    /\ fi' = 1
    /\ fpc' = FirstStage(fscript)
    /\ UNCHANGED <<fscript, fparks, fdb, fargs, api_calls, calls, since,
                   mingap, failed, saves, saved, lookup, photo_count>>
    /\ UNCHANGED <<ivars, dvars, svars, pvars, vvars, xvars, cvars, avars>>

\* validate_location_with_nasa up to the answer of planetary/earth/assets;
\* unless a location was found the function returns and the loop sleeps.
CallNasaAssets ==
    /\ fpc = "nasa"
    /\ \E o \in NasaAssetsOutcomes, d \in CallSeconds :
          /\ calls' = [calls EXCEPT !["nasa"] = @ + 1]
          /\ mingap' = Gaps(mingap, since, "nasa")
          /\ lookup' = o
          /\ IF o = "found"
             THEN /\ fpc' = "imagery"
                  /\ since' = Called(since, "nasa", d)
                  /\ UNCHANGED <<fargs, api_calls, failed>>
             ELSE /\ fpc' = Proceed(o, AfterNasa(fscript, fparks[fi]))
                  /\ since' = Slept(Called(since, "nasa", d))
                  /\ api_calls' = IF o = "raise" THEN api_calls
                                  ELSE [api_calls EXCEPT !["nasa"] = @ + 1]
                  /\ fargs' = [fargs EXCEPT !.nasa_validated = (o # "raise"),
                                            !.satellite_url = ""]
                  /\ failed' = IF Failure(o) THEN failed \cup {"nasa"} ELSE failed
    /\ UNCHANGED <<fscript, fparks, fdb, fi, saves, saved, photo_count>>
    /\ UNCHANGED <<ivars, dvars, svars, pvars, vvars, xvars, cvars, avars>>

\* The call of planetary/earth/imagery: the second call of
\* validate_location_with_nasa, the only call of fetch_nasa_satellite_image;
\* then the sleep of the loop.
CallNasaImagery ==
    /\ fpc = "imagery"
    /\ \E o \in NasaImageryOutcomes, d \in CallSeconds :
          /\ calls' = [calls EXCEPT !["nasa"] = @ + 1]
          /\ mingap' = Gaps(mingap, since, "nasa")
          /\ since' = Slept(Called(since, "nasa", d))
          /\ fpc' = Proceed(o, AfterNasa(fscript, fparks[fi]))
          /\ api_calls' =
                IF fscript = MVP \/ o = "raise" THEN api_calls
                ELSE IF o = "image" THEN [api_calls EXCEPT !["nasa"] = @ + 2]
                ELSE [api_calls EXCEPT !["nasa"] = @ + 1]
          /\ fargs' = [fargs EXCEPT
                          !.nasa_validated = (fscript = WORLD /\ o # "raise"),
                          !.satellite_url =
                              IF o = "image" THEN "/assets/nasa_sat.jpg" ELSE ""]
          /\ failed' = IF Failure(o) THEN failed \cup {"nasa"} ELSE failed
    /\ UNCHANGED <<fscript, fparks, fdb, fi, saves, saved, lookup, photo_count>>
    /\ UNCHANGED <<ivars, dvars, svars, pvars, vvars, xvars, cvars, avars>>

\* fetch_nps_images / fetch_nps_data and the sleep of the loop.
CallNps ==
    /\ fpc = "nps"
    /\ \E o \in NpsOutcomes, d \in CallSeconds :
          /\ calls' = [calls EXCEPT !["nps"] = @ + 1]
          /\ mingap' = Gaps(mingap, since, "nps")
          /\ since' = Slept(Called(since, "nps", d))
          /\ fpc' = Proceed(o, AfterNps(fscript))
          /\ api_calls' = IF fscript = MVP \/ o = "raise" THEN api_calls
                          ELSE [api_calls EXCEPT !["nps"] = @ + 1]
          /\ fargs' = IF fscript = WORLD
                      THEN [fargs EXCEPT !.nps_images = NpsImages(o, fparks[fi].id)]
                      ELSE [fargs EXCEPT !.nps_data = (o # "raise")]
          /\ failed' = IF Failure(o) THEN failed \cup {"nps"} ELSE failed
    /\ UNCHANGED <<fscript, fparks, fdb, fi, saves, saved, lookup, photo_count>>
    /\ UNCHANGED <<ivars, dvars, svars, pvars, vvars, xvars, cvars, avars>>

\* fetch_unsplash_photos and the sleep of the loop.
CallUnsplash ==
    /\ fpc = "unsplash"
    /\ \E o \in UnsplashOutcomes, d \in CallSeconds :
          /\ calls' = [calls EXCEPT !["unsplash"] = @ + 1]
          /\ mingap' = Gaps(mingap, since, "unsplash")
          /\ since' = Slept(Called(since, "unsplash", d))
          /\ fpc' = Proceed(o, AfterUnsplash(fscript))
          /\ api_calls' = IF fscript = MVP \/ o = "raise" THEN api_calls
                          ELSE [api_calls EXCEPT !["unsplash"] = @ + 1]
          /\ photo_count' = PhotoCount(fscript, fargs.nps_images)
          /\ fargs' = [fargs EXCEPT !.unsplash_photos =
                          UnsplashPhotos(o, PhotoCount(fscript, fargs.nps_images))]
          /\ failed' = IF Failure(o) THEN failed \cup {"unsplash"} ELSE failed
    /\ UNCHANGED <<fscript, fparks, fdb, fi, saves, saved, lookup>>
    /\ UNCHANGED <<ivars, dvars, svars, pvars, vvars, xvars, cvars, avars>>

\* The image rows save_park_data inserts for the fetched arguments.
SavedRows(s, pid, a) ==
    LET kept == SelectSeq(ImageInserts(s, pid, a), LAMBDA x : x.insert)
    IN  [n \in 1..Len(kept) |-> kept[n].row]

\* The host save_park_data downloads from while it inserts, and how often.
DownloadHost(s) == IF s = WORLD THEN "nps_images" ELSE "unsplash_images"

Downloads(s, a) ==
    IF s = WORLD THEN Len(a.nps_images) ELSE Len(a.unsplash_photos)

\* The loop with every second park of the list left out.
NextPark_SkipsOne ==
    /\ fi' = fi + 2
    /\ fpc' = IF fi + 1 < Len(fparks) THEN FirstStage(fscript) ELSE "done"
    /\ fargs' = NoAssets
    /\ failed' = {}
    /\ photo_count' = 0

\* The loop goes to the next park, or ends after the last one.
NextPark ==
    /\ fi' = fi + 1
    /\ fpc' = IF fi < Len(fparks) THEN FirstStage(fscript) ELSE "done"
    /\ fargs' = NoAssets
    /\ failed' = {}
    /\ photo_count' = 0

\* save_park_data from connect to commit and close, its image downloads made
\* one after the other with d seconds each, and the step of the loop.
SavePark ==
    /\ fpc = "save"
    /\ \E d \in CallSeconds :
          LET park == fparks[fi]
              rows == SavedRows(fscript, park.id, fargs)
              h == DownloadHost(fscript)
              n == Downloads(fscript, fargs)
          IN  /\ fdb' = [parks |-> InsertOrReplace(fdb.parks,
                                      ParkRow(fscript, park, fargs, 1)),
                         images |-> fdb.images \o rows]
              /\ saves' = Append(saves, [park |-> park.id, ok |-> TRUE])
              /\ saved' = [failed |-> failed, rows |-> rows]
              /\ mingap' = IF n = 0 THEN mingap
                           ELSE IF n = 1 THEN Gaps(mingap, since, h)
                           ELSE [Gaps(mingap, since, h) EXCEPT ![h] = Min(@, d)]
              /\ since' = IF n = 0 THEN since
                          ELSE Called(Elapse(since, (n - 1) * d), h, d)
    /\ NextPark
    /\ UNCHANGED <<fscript, fparks, api_calls, calls, lookup>>
    /\ UNCHANGED <<ivars, dvars, svars, pvars, vvars, xvars, cvars, avars>>

\* save_park_data when the store refuses a write (sqlite3.Error from
\* connect, execute or commit): nothing in the fetchers catches it, the
\* exception leaves the loop and the process ends; the open transaction is
\* rolled back.
SaveFails ==
    /\ fpc = "save"
    /\ saves' = Append(saves, [park |-> fparks[fi].id, ok |-> FALSE])
    /\ saved' = [failed |-> failed, rows |-> <<>>]
    /\ fpc' = "aborted"
    /\ UNCHANGED <<fscript, fparks, fdb, fi, fargs, api_calls, calls, since,
                   mingap, failed, lookup, photo_count>>
    /\ UNCHANGED <<ivars, dvars, svars, pvars, vvars, xvars, cvars, avars>>

----------------------------------------------------------------------------
(* Part IV: data *)

FINAL == "fetch_earth_textures_final"
FIX == "fix_textures"
Generators == {FINAL, FIX, CREATE}

\* Bounds of the rasters: pixels of one row, reach of a point feature in
\* pixels, length of the feature table, states of the random generator.
Width == 3
Radius == 2
MaxFeatures == 2
RngSize == 3

Pixels == 1..Width

\* the channel maximum of a uint8 raster
ChannelMax == 255

\* np.random.seed(42)
CloudSeed == 42

\* Peak brightness of a city in the tables of the generators.
Peaks == {60, 100}

Feature(at, peak) == [at |-> at, peak |-> peak]

FeatureTables ==
    UNION {[1..n -> {Feature(x, b) : x \in Pixels, b \in Peaks}]
              : n \in 1..MaxFeatures}

\* The layers each generator renders, in the order of its code.
Order(g) ==
    CASE g = FINAL -> <<"day", "night", "specular", "normal", "clouds">>
      [] g = FIX -> <<"normal", "specular", "clouds", "night">>
      [] OTHER -> <<"specular", "clouds", "normal", "day", "night">>

\* The layers whose pixels are computed from np.random draws.
Random(g, layer) ==
    IF g = FINAL THEN layer \in {"day", "night", "normal", "clouds"}
    ELSE layer = "clouds"

\* np.random.seed(42) right before the cloud loop; fetch_earth_textures_final
\* never seeds.
Seeds(g, layer) == g # FINAL /\ layer = "clouds"

----------------------------------------------------------------------------
(* Part IV: the random generator and the pixel arithmetic *)

\* numpy's global generator: a state, the value it yields, the next state.
Seeded(seed) == seed % RngSize

Draw(r) == r

NextRng(r) == (r + 1) % RngSize

\* np.random.uniform(0.8, 1.2), in tenths
Uniform(r) == 8 + 2 * (Draw(r) % 3)

Dist(a, b) == IF a < b THEN b - a ELSE a - b

Covers(f, px) == Dist(f.at, px) < Radius

\* brightness * (1 - dist / radius)
Falloff(f, px) == (f.peak * (Radius - Dist(f.at, px))) \div Radius

\* The red value a feature contributes to a pixel it covers:
\* intensity * 2 in fix_textures and create_earth_textures,
\* min(255, brightness * 2.5) with brightness scaled by the uniform draw in
\* fetch_earth_textures_final.
Red(g, f, px, r) ==
    IF g = FINAL
    THEN Min(ChannelMax, (Falloff(f, px) * Uniform(r) * 25) \div 100)
    ELSE 2 * Falloff(f, px)

\* The new value of a covered pixel: np.clip(night[ny, nx] + [...], 0, 255)
\* in fix_textures; a plain assignment of the feature's own value, cast to
\* uint8, in the other two.
Composite(g, old, c) ==
    CASE g = FIX -> Min(ChannelMax, old + c)
      [] g = FINAL -> c
      [] OTHER -> c % (ChannelMax + 1)

\* The pixels of a layer other than night: fixed by the code, or computed
\* from the draws (specular of fetch_earth_textures_final is read off its
\* day layer).
Rendered(g, layer, r, done) ==
    IF Random(g, layer) THEN Draw(r)
    ELSE IF g = FINAL /\ layer = "specular" THEN done[1].pixels
    ELSE 0

----------------------------------------------------------------------------
(* Part IV: one invocation of a generator *)

Dark == [px \in Pixels |-> 0]

InitSynthVars ==
    /\ gen \in Generators
    /\ features \in FeatureTables
    /\ spc = "idle"
    /\ rng = 0
    /\ todo = <<>>
    /\ night = Dark
    /\ naive = Dark
    /\ layers = <<>>
    /\ outs = <<>>

\* The script is started in a fresh process: numpy seeds its generator from
\* the entropy of the operating system.
StartSynth ==
    /\ spc = "idle"
    /\ Len(outs) < MaxRuns
    /\ rng' \in 0..(RngSize - 1)
    /\ layers' = <<>>
    /\ spc' = "render"
    /\ UNCHANGED <<gen, features, todo, night, naive, outs>>
    /\ UNCHANGED <<ivars, dvars, fvars, pvars, vvars, xvars, cvars, avars>>

\* A layer is saved; after the last one the script ends.
SaveLayer(layer, pixels) ==
    /\ layers' = Append(layers, [name |-> layer, pixels |-> pixels])
    /\ IF Len(layers) + 1 = Len(Order(gen))
       THEN /\ outs' = Append(outs, layers')
            /\ spc' = "idle"
       ELSE /\ outs' = outs
            /\ spc' = "render"

\* One layer other than night is rendered and saved.
RenderLayer ==
    /\ spc = "render"
    /\ LET layer == Order(gen)[Len(layers) + 1]
           r == IF Seeds(gen, layer) THEN Seeded(CloudSeed) ELSE rng
       IN  /\ layer # "night"
           /\ rng' = IF Random(gen, layer) THEN NextRng(r) ELSE r
           /\ SaveLayer(layer, Rendered(gen, layer, r, layers))
    /\ UNCHANGED <<gen, features, todo, night, naive>>
    /\ UNCHANGED <<ivars, dvars, fvars, pvars, vvars, xvars, cvars, avars>>

\* The night raster is allocated: np.zeros((height, width, 3), dtype=np.uint8)
BeginNight ==
    /\ spc = "render"
    /\ Order(gen)[Len(layers) + 1] = "night"
    /\ spc' = "night"
    /\ todo' = features
    /\ night' = Dark
    /\ naive' = Dark
    /\ UNCHANGED <<gen, features, rng, layers, outs>>
    /\ UNCHANGED <<ivars, dvars, fvars, pvars, vvars, xvars, cvars, avars>>

\* One iteration of the loop over the cities: every pixel the feature covers
\* gets its new value.
PlaceFeature ==
    /\ spc = "night"
    /\ todo # <<>>
    /\ LET f == Head(todo)
       IN  /\ night' = [px \in Pixels |->
                          IF Covers(f, px)
                          THEN Composite(gen, night[px], Red(gen, f, px, rng))
                          ELSE night[px]]
           /\ naive' = [px \in Pixels |->
                          IF Covers(f, px)
                          THEN naive[px] + Red(gen, f, px, rng)
                          ELSE naive[px]]
    /\ rng' = IF Random(gen, "night") THEN NextRng(rng) ELSE rng
    /\ todo' = Tail(todo)
    /\ UNCHANGED <<gen, features, spc, layers, outs>>
    /\ UNCHANGED <<ivars, dvars, fvars, pvars, vvars, xvars, cvars, avars>>

\* The loop over the cities is over and the night layer is saved.
EndNight ==
    /\ spc = "night"
    /\ todo = <<>>
    /\ SaveLayer("night", night)
    /\ UNCHANGED <<gen, features, rng, todo, night, naive>>
    /\ UNCHANGED <<ivars, dvars, fvars, pvars, vvars, xvars, cvars, avars>>

----------------------------------------------------------------------------
(* Part V: data *)

\* The two places that resize: download_and_process_image of fetch_assets_mvp
\* (called by save_park_data for each photo) and the web-optimized step at
\* the end of fetch_hq_earth_textures.main (for each texture file).
THUMBNAIL == "download_and_process_image"
OPTIMIZE == "web_optimized"
Sites == {THUMBNAIL, OPTIMIZE}

MaxPayloads == 2

\* Width and height of the decoded sources.
Sides == {1, 300, 1000, 2048, 4096}

Corrupt == [decodes |-> FALSE, width |-> 0, height |-> 0]

Raster(w, h) == [decodes |-> TRUE, width |-> w, height |-> h]

Payloads == {Corrupt} \cup {Raster(w, h) : w, h \in Sides}

\* sizes of download_and_process_image, and the tiny placeholder.
Preset(name, w, h) == [name |-> name, width |-> w, height |-> h]

sizes ==
    <<Preset("original", 1920, 1080), Preset("medium", 800, 600),
      Preset("thumb", 400, 300), Preset("tiny", 20, 20)>>

\* width = 2048 of the web-optimized copy
OptimizedWidth == 2048

----------------------------------------------------------------------------
(* Part V: the size arithmetic *)

Abs(n) == IF n < 0 THEN 0 - n ELSE n

Ceil(a, b) == IF a % b = 0 THEN a \div b ELSE (a \div b) + 1

\* round_aspect of Image.thumbnail: of floor and ceil of the scaled side the
\* one whose ratio is nearer to the source's (the floor on a tie), at least 1.
\* For the width the key is abs(aspect - n / y), for the height
\* 0 if n == 0 else abs(aspect - x / n), with aspect = w / h.
RoundWidth(w, h, y) ==
    LET f == (y * w) \div h
        c == Ceil(y * w, h)
    IN  Max(IF Abs(w * y - f * h) <= Abs(w * y - c * h) THEN f ELSE c, 1)

RoundHeight(w, h, x) ==
    LET f == (x * h) \div w
        c == Ceil(x * h, w)
    IN  Max(IF f = 0 \/ Abs(w * f - x * h) * c <= Abs(w * c - x * h) * f
            THEN f ELSE c, 1)

\* Image.thumbnail(size): the size of an image of w x h after the call with
\* the box x x y.  An image that fits the box is left as it is.
thumbnail(w, h, x, y) ==
    IF x >= w /\ y >= h THEN <<w, h>>
    ELSE IF x * h >= w * y THEN <<RoundWidth(w, h, y), y>>
    ELSE <<x, RoundHeight(w, h, x)>>

\* height = int(img.height * (width / img.width)) with width = 2048
OptimizedHeight(w, h) == (h * OptimizedWidth) \div w

Derivative(name, size, box) ==
    [name |-> name, width |-> size[1], height |-> size[2], box |-> box]

\* The files download_and_process_image writes for a decoded image: one per
\* entry of sizes, and the tiny placeholder that is embedded in the row.
Thumbnails(img) ==
    [k \in 1..Len(sizes) |->
        Derivative(sizes[k].name,
                   thumbnail(img.width, img.height, sizes[k].width, sizes[k].height),
                   <<sizes[k].width, sizes[k].height>>)]

\* The web-optimized copy: img.resize((width, height)); the preset bounds the
\* width only.
Optimized(img) ==
    <<Derivative("optimized",
                 <<OptimizedWidth, OptimizedHeight(img.width, img.height)>>,
                 <<OptimizedWidth, 0>>)>>

\* Whether the processing of a payload raises: Image.open on bytes that are
\* no image, and img.resize to a height of 0.
Raises(site, img) ==
    IF img.decodes
    THEN site = OPTIMIZE /\ OptimizedHeight(img.width, img.height) < 1
    ELSE TRUE

\* Whether the code around the processing catches what it raises:
\* download_and_process_image has try/except Exception and returns None; the
\* web-optimized step catches ImportError only.
Handled(site) == site = THUMBNAIL

----------------------------------------------------------------------------
(* Part V: the post-processing loop *)

InitProcessVars ==
    /\ psite \in Sites
    /\ payloads \in UNION {[1..n -> Payloads] : n \in 1..MaxPayloads}
    /\ ppc = "idle"
    /\ pk = 0
    /\ derivs = <<>>
    /\ recorded = {}

\* save_park_data enters its photo loop; main enters its web-optimized loop.
StartProcessing ==
    /\ ppc = "idle"
    /\ pk' = 1
    /\ ppc' = "process"
    /\ UNCHANGED <<psite, payloads, derivs, recorded>>
    /\ UNCHANGED <<ivars, dvars, fvars, svars, vvars, xvars, cvars, avars>>

\* The loop goes to the next payload, or ends after the last one.
NextPayload ==
    /\ pk' = pk + 1
    /\ ppc' = IF pk < Len(payloads) THEN "process" ELSE "done"

\* One payload is decoded, resized and saved, and its asset is recorded.
ProcessPayload ==
    /\ ppc = "process"
    /\ ~Raises(psite, payloads[pk])
    /\ derivs' = IF psite = THUMBNAIL THEN Thumbnails(payloads[pk])
                 ELSE Optimized(payloads[pk])
    /\ recorded' = recorded \cup {pk}
    /\ NextPayload
    /\ UNCHANGED <<psite, payloads>>
    /\ UNCHANGED <<ivars, dvars, fvars, svars, vvars, xvars, cvars, avars>>

\* The processing of one payload raises: where the exception is caught the
\* payload gives no asset and the loop goes on, elsewhere it ends the script.
ProcessingRaises ==
    /\ ppc = "process"
    /\ Raises(psite, payloads[pk])
    /\ derivs' = <<>>
    /\ IF Handled(psite)
       THEN NextPayload
       ELSE /\ ppc' = "aborted"
            /\ pk' = pk
    /\ UNCHANGED <<psite, payloads, recorded>>
    /\ UNCHANGED <<ivars, dvars, fvars, svars, vvars, xvars, cvars, avars>>

----------------------------------------------------------------------------
(* Part VI: data *)

\* The entries of textures that main downloads, in the order of the table
\* (earth_day_alt is the alternative url of earth_day), and the file each is
\* written to.
V2Textures == <<"earth_day", "earth_night", "earth_topology", "earth_water">>

HasAlt(name) == name = "earth_day"

Dest(name) == IF name = "earth_topology" THEN "earth_normal" ELSE name

Dests == {Dest(V2Textures[k]) : k \in 1..Len(V2Textures)}

\* The destinations the generated script writes (it also writes
\* earth_specular.jpg and earth_clouds.png, which main does not download).
ProceduralDests == {"earth_day", "earth_night"}

\* A file of the directory: where its bytes come from, whether it is below
\* the 1000 bytes of main's size test, whether it is a whole payload.
V2Absent == [origin |-> "none", small |-> FALSE, whole |-> FALSE]

V2Procedural == [origin |-> "procedural", small |-> FALSE, whole |-> TRUE]

V2Downloaded == [origin |-> "download", small |-> FALSE, whole |-> TRUE]

V2Partial(small) == [origin |-> "download", small |-> small, whole |-> FALSE]

\* How a download that does not succeed ends: requests.get or
\* raise_for_status raises before the file is opened, or the stream breaks
\* after some chunks were written.
V2Failures == {"raise", "cut_small", "cut_large"}

\* The file after download_file with a given end.
V2After(f, end) ==
    CASE end = "ok" -> V2Downloaded
      [] end = "cut_small" -> V2Partial(TRUE)
      [] end = "cut_large" -> V2Partial(FALSE)
      [] OTHER -> f

\* if not dest_path.exists() or os.path.getsize(dest_path) < 1000
V2Downloads(f) == f.origin = "none" \/ f.small

----------------------------------------------------------------------------
(* Part VI: main *)

InitV2Vars ==
    /\ vserver \in SUBSET {V2Textures[k] : k \in 1..Len(V2Textures)}
    /\ vfiles = [d \in Dests |-> V2Absent]
    /\ vpc = "idle"
    /\ vtex = 0
    /\ vruns = 0
    /\ attempted = {}

\* main() is started.
StartV2 ==
    /\ vpc = "idle"
    /\ vruns < MaxRuns
    /\ vruns' = vruns + 1
    /\ vpc' = "procedural"
    /\ attempted' = {}
    /\ UNCHANGED <<vserver, vfiles, vtex>>
    /\ UNCHANGED <<ivars, dvars, fvars, svars, pvars, xvars, cvars, avars>>

\* The generated script is written, run with os.system and removed.  When it
\* runs to its end it saves its textures over whatever is at their paths;
\* when it does not (numpy or PIL missing, the script not found in the
\* directory os.system changes to) main goes on all the same.
RunProcedural ==
    /\ vpc = "procedural"
    /\ \E ran \in BOOLEAN :
          vfiles' = [d \in Dests |->
                        IF ran /\ d \in ProceduralDests
                        THEN V2Procedural ELSE vfiles[d]]
    /\ vpc' = "download"
    /\ vtex' = 1
    /\ UNCHANGED <<vserver, vruns, attempted>>
    /\ UNCHANGED <<ivars, dvars, fvars, svars, pvars, xvars, cvars, avars>>

\* One iteration of the download loop: the size test, download_file, and
\* after an exception the alternative url where the table has one; after the
\* last texture main ends.
DownloadV2 ==
    /\ vpc = "download"
    /\ LET name == V2Textures[vtex]
           d == Dest(name)
       IN  IF V2Downloads(vfiles[d])
           THEN /\ attempted' = attempted \cup {name}
                /\ IF name \in vserver
                   THEN vfiles' = [vfiles EXCEPT ![d] = V2After(@, "ok")]
                   ELSE \E end \in V2Failures, alt \in V2Failures \cup {"ok"} :
                           vfiles' = [vfiles EXCEPT ![d] =
                                         IF HasAlt(name)
                                         THEN V2After(V2After(@, end), alt)
                                         ELSE V2After(@, end)]
           ELSE UNCHANGED <<vfiles, attempted>>
    /\ vtex' = vtex + 1
    /\ vpc' = IF vtex < Len(V2Textures) THEN "download" ELSE "idle"
    /\ UNCHANGED <<vserver, vruns>>
    /\ UNCHANGED <<ivars, dvars, fvars, svars, pvars, xvars, cvars, avars>>

----------------------------------------------------------------------------
(* Part VII: data *)

\* The textures fix_textures looks after: earth_normal.jpg in its own block,
\* then the entries of the textures dict in order.
NormalName == "earth_normal.jpg"

FixTextures == <<"earth_specular.jpg", "earth_clouds.png", "earth_night.jpg">>

FixNames == {NormalName} \cup {FixTextures[k] : k \in 1..Len(FixTextures)}

\* os.path.getsize(path) < 10000
MinFixSize == 10000

Missing == [exists |-> FALSE, size |-> 0]

Present(size) == [exists |-> TRUE, size |-> size]

\* The file a creator saves (2048 x 1024 pixels); only its existence is used.
Created == Present(MinFixSize)

FixStates == {Missing, Present(MinFixSize - 1), Present(MinFixSize)}

\* if not path.exists() or os.path.getsize(path) < 10000
NeedsFix(f) == ~f.exists \/ f.size < MinFixSize

\* What is at earth_day.jpg: nothing, a JPEG, a PNG under the .jpg name, or
\* bytes Image.open does not read.
DayStates == {"absent", "jpeg", "png", "corrupt"}

----------------------------------------------------------------------------
(* Part VII: fix_textures *)

InitFixVars ==
    /\ xday \in DayStates
    /\ xfiles \in [FixNames -> FixStates]
    /\ xpc = "idle"
    /\ xk = 0
    /\ bound = FALSE

\* fix_textures up to the end of the earth_day block: a PNG is saved again
\* as JPEG; Image.open raises on a file it cannot read.
ConvertDay ==
    /\ xpc = "idle"
    /\ xpc' = IF xday = "corrupt" THEN "aborted" ELSE "normal"
    /\ xday' = IF xday = "png" THEN "jpeg" ELSE xday
    /\ UNCHANGED <<xfiles, xk, bound>>
    /\ UNCHANGED <<ivars, dvars, fvars, svars, pvars, vvars, cvars, avars>>

\* The earth_normal.jpg block: width, height are assigned inside it.
FixNormal ==
    /\ xpc = "normal"
    /\ IF NeedsFix(xfiles[NormalName])
       THEN /\ bound' = TRUE
            /\ xfiles' = [xfiles EXCEPT ![NormalName] = Created]
       ELSE UNCHANGED <<xfiles, bound>>
    /\ xpc' = "others"
    /\ xk' = 1
    /\ UNCHANGED xday
    /\ UNCHANGED <<ivars, dvars, fvars, svars, pvars, vvars, cvars, avars>>

\* One iteration of the loop over textures: a creator is called with width
\* and height of the enclosing function, which raises NameError when they
\* were never assigned.
FixOther ==
    /\ xpc = "others"
    /\ IF NeedsFix(xfiles[FixTextures[xk]])
       THEN IF bound
            THEN /\ xfiles' = [xfiles EXCEPT ![FixTextures[xk]] = Created]
                 /\ xk' = xk + 1
                 /\ xpc' = IF xk < Len(FixTextures) THEN "others" ELSE "done"
            ELSE /\ xpc' = "aborted"
                 /\ UNCHANGED <<xfiles, xk>>
       ELSE /\ xk' = xk + 1
            /\ xpc' = IF xk < Len(FixTextures) THEN "others" ELSE "done"
            /\ UNCHANGED xfiles
    /\ UNCHANGED <<xday, bound>>
    /\ UNCHANGED <<ivars, dvars, fvars, svars, pvars, vvars, cvars, avars>>

----------------------------------------------------------------------------
(* Part VIII: data *)

\* Blobs one run places on the row.
MaxBlobs == 3

\* The type numpy gives clouds[y, x, 3] + alpha for a uint8 scalar and a
\* Python int: the 64-bit integer of value-based promotion (numpy 1), or
\* uint8 with the Python int taken as weak (numpy 2).  The repository pins no
\* version.
Promotions == {"value_based", "weak_scalar"}

\* The alpha a blob centred at cx adds to pixel px, a blob of half-width
\* Radius: int((1 - dist) * 128) in fix_textures, int((1 - dist) * 255) // 2
\* in create_earth_textures, (1 - dist_x**2) * 200 in
\* fetch_earth_textures_final (its whole part: the raster stores uint8).
BlobAlpha(g, cx, px) ==
    CASE g = FIX -> (128 * (Radius - Dist(cx, px))) \div Radius
      [] g = CREATE -> ((255 * (Radius - Dist(cx, px))) \div Radius) \div 2
      [] OTHER ->
           (200 * (Radius * Radius - Dist(cx, px) * Dist(cx, px)))
               \div (Radius * Radius)

\* if dist < 1
InBlob(cx, px) == Dist(cx, px) < Radius

\* min(255, clouds[y, x, 3] + alpha): the sum is a float in
\* fetch_earth_textures_final; in the other two it has the type the
\* promotion rule gives it, and a uint8 sum wraps.
Accumulate(g, rule, old, a) ==
    IF g # FINAL /\ rule = "weak_scalar"
    THEN Min(ChannelMax, (old + a) % (ChannelMax + 1))
    ELSE Min(ChannelMax, old + a)

----------------------------------------------------------------------------
(* Part VIII: the cloud loop *)

InitCloudVars ==
    /\ cgen \in Generators
    /\ promotion \in Promotions
    /\ cpc = "idle"
    /\ clouds = Dark
    /\ cprev = Dark
    /\ cblob = <<>>

\* np.zeros((height, width, 4), dtype=np.uint8)
BeginClouds ==
    /\ cpc = "idle"
    /\ cpc' = "blobs"
    /\ clouds' = Dark
    /\ cprev' = Dark
    /\ cblob' = <<>>
    /\ UNCHANGED <<cgen, promotion>>
    /\ UNCHANGED <<ivars, dvars, fvars, svars, pvars, vvars, xvars, avars>>

\* One iteration of the loop over the blobs: the centre is drawn, and every
\* pixel inside the blob gets its new alpha.
PlaceBlob ==
    /\ cpc = "blobs"
    /\ Len(cblob) < MaxBlobs
    /\ \E cx \in Pixels :
          /\ clouds' = [px \in Pixels |->
                          IF InBlob(cx, px)
                          THEN Accumulate(cgen, promotion, clouds[px],
                                          BlobAlpha(cgen, cx, px))
                          ELSE clouds[px]]
          /\ cblob' = Append(cblob, cx)
    /\ cprev' = clouds
    /\ UNCHANGED <<cgen, promotion, cpc>>
    /\ UNCHANGED <<ivars, dvars, fvars, svars, pvars, vvars, xvars, avars>>

\* The loop is over and the layer is saved.
EndClouds ==
    /\ cpc = "blobs"
    /\ Len(cblob) = MaxBlobs
    /\ cpc' = "done"
    /\ UNCHANGED <<cgen, promotion, clouds, cprev, cblob>>
    /\ UNCHANGED <<ivars, dvars, fvars, svars, pvars, vvars, xvars, avars>>

----------------------------------------------------------------------------
(* Part IX: data *)

MAIN_APP == "main"
WORLD_APP == "main_world"
Apps == {MAIN_APP, WORLD_APP}

\* Largest absolute value of a limit a request carries.
MaxLimit == 3

\* A query parameter that was not supplied (None).
NotGiven == "not given"

Biomes == {"desert", "forest"}
Countries == {"us", "ca"}

\* PARKS_DATA of main.py in the order of the CSV; the rows of parks of
\* main_world.py in the order of ORDER BY id.
Listings ==
    UNION {[1..n -> [biome : Biomes, country : Countries]]
              : n \in 0..MaxParks}

\* limit is <<>> when not supplied and <<n>> when it is n.
Requests ==
    [limit : {<<>>} \cup {<<n>> : n \in (0 - MaxLimit)..MaxLimit},
     biome : {NotGiven} \cup Biomes,
     country : {NotGiven} \cup Countries]

\* The indices of the parks the filters keep: main.py knows biome only.
Kept(a, l, q) ==
    {k \in 1..Len(l) :
        /\ q.biome # NotGiven => l[k].biome = q.biome
        /\ (a = WORLD_APP /\ q.country # NotGiven) => l[k].country = q.country}

\* The number of parks, out of total, that a truthy limit n lets through:
\* the slice parks[:n] in main.py, LIMIT n of SQLite in main_world.py (a
\* negative LIMIT is no limit).
Through(a, n, total) ==
    IF a = MAIN_APP
    THEN IF n < 0 THEN Max(0, total + n) ELSE Min(n, total)
    ELSE IF n < 0 THEN total ELSE Min(n, total)

\* if limit: a limit of None or 0 is skipped.
Limited(a, limit, total) ==
    IF limit = <<>> THEN total
    ELSE IF limit[1] = 0 THEN total
    ELSE Through(a, limit[1], total)

\* The ids of the parks get_parks returns, in order: the first ones of the
\* kept parks.
get_parks(a, l, q) ==
    {k \in Kept(a, l, q) :
        Cardinality({j \in Kept(a, l, q) : j <= k})
            <= Limited(a, q.limit, Cardinality(Kept(a, l, q)))}

----------------------------------------------------------------------------
(* Part IX: the handler *)

InitApiVars ==
    /\ app \in Apps
    /\ listing \in Listings
    /\ request = [limit |-> <<>>, biome |-> NotGiven, country |-> NotGiven]
    /\ response = {}

\* GET /api/parks with any query parameters.
GetParks ==
    /\ \E q \in Requests :
          /\ request' = q
          /\ response' = get_parks(app, listing, q)
    /\ UNCHANGED <<app, listing>>
    /\ UNCHANGED <<ivars, dvars, fvars, svars, pvars, vvars, xvars, cvars>>

----------------------------------------------------------------------------
(* The specifications *)

NextIngest ==
    \/ StartRun
    \/ FetchPark
    \/ UpsertPark
    \/ InsertNextImage
    \/ CommitPark
    \/ NextParkQuick
    \/ Crash

NextDownload ==
    \/ StartDownloads
    \/ TextureHead
    \/ Attempt
    \/ Synthesize

NextFetch ==
    \/ StartFetching
    \/ CallNasaAssets
    \/ CallNasaImagery
    \/ CallNps
    \/ CallUnsplash
    \/ SavePark
    \/ SaveFails

NextSynth ==
    \/ StartSynth
    \/ RenderLayer
    \/ BeginNight
    \/ PlaceFeature
    \/ EndNight

NextProcess ==
    \/ StartProcessing
    \/ ProcessPayload
    \/ ProcessingRaises

NextV2 ==
    \/ StartV2
    \/ RunProcedural
    \/ DownloadV2

NextFix ==
    \/ ConvertDay
    \/ FixNormal
    \/ FixOther

NextClouds ==
    \/ BeginClouds
    \/ PlaceBlob
    \/ EndClouds

NextApi == GetParks

\* The parts that do not run in a specification stay in one initial state.
IdleIngest ==
    /\ InitIngestVars
    /\ script = QUICK
    /\ parks = <<[id |-> 1, code |-> "a"]>>

IdleDownload ==
    /\ InitDownloadVars
    /\ dscript = HQ

IdleFetch ==
    /\ InitFetchVars
    /\ fscript = WORLD
    /\ fparks = <<[id |-> 1, code |-> 1, us |-> FALSE]>>

IdleSynth ==
    /\ InitSynthVars
    /\ gen = FIX
    /\ features = <<Feature(1, 60)>>

IdleProcess ==
    /\ InitProcessVars
    /\ psite = THUMBNAIL
    /\ payloads = <<Corrupt>>

IdleV2 ==
    /\ InitV2Vars
    /\ vserver = {}

IdleFix ==
    /\ InitFixVars
    /\ xday = "absent"
    /\ xfiles = [n \in FixNames |-> Missing]

IdleClouds ==
    /\ InitCloudVars
    /\ cgen = FIX
    /\ promotion = "value_based"

IdleApi ==
    /\ InitApiVars
    /\ app = MAIN_APP
    /\ listing = <<>>

\* Part I alone: no texture script is running.
InitIngest ==
    /\ InitIngestVars
    /\ InitDownloadVars
    /\ dscript = HQ
    /\ IdleFetch
    /\ IdleSynth
    /\ IdleProcess
    /\ IdleV2
    /\ IdleFix
    /\ IdleClouds
    /\ IdleApi

SpecIngest == InitIngest /\ [][NextIngest]_vars

\* Part II alone: no ingestion is running.
InitDownload ==
    /\ InitDownloadVars
    /\ InitIngestVars
    /\ script = QUICK
    /\ parks = <<[id |-> 1, code |-> "a"]>>
    /\ IdleFetch
    /\ IdleSynth
    /\ IdleProcess
    /\ IdleV2
    /\ IdleFix
    /\ IdleClouds
    /\ IdleApi

SpecDownload == InitDownload /\ [][NextDownload]_vars

\* Part III alone.
InitFetch ==
    /\ InitFetchVars
    /\ IdleIngest
    /\ IdleDownload
    /\ IdleSynth
    /\ IdleProcess
    /\ IdleV2
    /\ IdleFix
    /\ IdleClouds
    /\ IdleApi

SpecFetch == InitFetch /\ [][NextFetch]_vars

\* Part III with the loop never stopping of its own: every call returns or
\* raises, every save returns or raises.
SpecFetchLive == SpecFetch /\ WF_vars(NextFetch)

\* Part IV alone.
InitSynth ==
    /\ InitSynthVars
    /\ IdleIngest
    /\ IdleDownload
    /\ IdleFetch
    /\ IdleProcess
    /\ IdleV2
    /\ IdleFix
    /\ IdleClouds
    /\ IdleApi

SpecSynth == InitSynth /\ [][NextSynth]_vars

\* Part V alone.
InitProcess ==
    /\ InitProcessVars
    /\ IdleIngest
    /\ IdleDownload
    /\ IdleFetch
    /\ IdleSynth
    /\ IdleV2
    /\ IdleFix
    /\ IdleClouds
    /\ IdleApi

SpecProcess == InitProcess /\ [][NextProcess]_vars

\* Part VI alone.
InitV2 ==
    /\ InitV2Vars
    /\ IdleIngest
    /\ IdleDownload
    /\ IdleFetch
    /\ IdleSynth
    /\ IdleProcess
    /\ IdleFix
    /\ IdleClouds
    /\ IdleApi

SpecV2 == InitV2 /\ [][NextV2]_vars

\* Part VII alone.
InitFix ==
    /\ InitFixVars
    /\ IdleIngest
    /\ IdleDownload
    /\ IdleFetch
    /\ IdleSynth
    /\ IdleProcess
    /\ IdleV2
    /\ IdleClouds
    /\ IdleApi

SpecFix == InitFix /\ [][NextFix]_vars

\* Part VIII alone.
InitClouds ==
    /\ InitCloudVars
    /\ IdleIngest
    /\ IdleDownload
    /\ IdleFetch
    /\ IdleSynth
    /\ IdleProcess
    /\ IdleV2
    /\ IdleFix
    /\ IdleApi

SpecClouds == InitClouds /\ [][NextClouds]_vars

\* Part IX alone.
InitApi ==
    /\ InitApiVars
    /\ IdleIngest
    /\ IdleDownload
    /\ IdleFetch
    /\ IdleSynth
    /\ IdleProcess
    /\ IdleV2
    /\ IdleFix
    /\ IdleClouds

SpecApi == InitApi /\ [][NextApi]_vars

----------------------------------------------------------------------------
(* Part I: claims *)

ParkOf(k) == db.images[k].park_id

\* C1: re-running the full ingestion over the same entity list and the same
\* provider responses adds no image rows: no two committed image rows share
\* (park id, type, remote reference), and the image row count after a second
\* complete run equals the count after the first.
C1_RerunAddsNoImageRows ==
    /\ \A j, k \in 1..Len(db.images) : j # k => db.images[j] # db.images[k]
    /\ (clean /\ Len(counts) >= 2) => counts[2] = counts[1]

\* C2: in every committed state of the store every image row's park_id is
\* the id of a parks row that exists in the store.
C2_NoOrphanedAsset ==
    \A k \in 1..Len(db.images) : \E p \in db.parks : p.id = ParkOf(k)

\* The image rows a save of the k-th park of the list is to insert.
ExpectedRows(k) ==
    LET ins == ImageInserts(script, parks[k].id, provider[parks[k].id])
        kept == SelectSeq(ins, LAMBDA x : x.insert)
    IN  [n \in 1..Len(kept) |-> kept[n].row]

NewRows(old, new) == SubSeq(new.images, Len(old.images) + 1, Len(new.images))

\* In the open transaction the park upsert of an entity comes before every
\* image insert of that entity.
UpsertFirst(stmts) ==
    \A n \in 1..Len(stmts) :
        stmts[n][1] = "image" =>
            \E m \in 1..(n - 1) : stmts[m] = <<"park", stmts[n][2]>>

\* C3: the writes of one entity are atomic and ordered: the park upsert is
\* executed before any of that park's image inserts, the committed store
\* changes only by a commit that installs the whole transaction with every
\* write of each entity in it, and a crash changes nothing in the committed
\* store; no image row is committed without its park's upsert in the same
\* commit.
C3_EntityWritesAtomicOrdered ==
    [][/\ UpsertFirst(txlog')
       /\ (db' # db) =>
            /\ tx.open
            /\ db' = tx
            /\ pending = <<>>
            /\ UpsertFirst(txlog)
            /\ \A n \in 1..Len(NewRows(db, db')) :
                 \E m \in 1..Len(txlog) :
                    txlog[m] = <<"park", NewRows(db, db')[n].park_id>>
            /\ \A k \in 1..Len(parks) :
                 (\E m \in 1..Len(txlog) : txlog[m][2] = parks[k].id) =>
                    SelectSeq(NewRows(db, db'), LAMBDA r : r.park_id = parks[k].id)
                        = ExpectedRows(k)]_vars

\* A crash has discarded the executed image inserts of a half-saved entity,
\* and the committed store holds none of them.
C3_Witness ==
    /\ lost
    /\ pc = "idle"
    /\ ~finished
    /\ tx = NoTx

\* C4: after a completed ingestion run the parks table holds exactly one row
\* for each entity id of the input list, carrying the values of the most
\* recent upsert of that id.
C4_OneRowPerEntity ==
    (pc = "idle" /\ finished) =>
        db.parks = {ParkRow(script, parks[k], provider[parks[k].id], runs)
                        : k \in 1..Len(parks)}

\* C18: every asset fetched for an entity is recorded: after a completed run
\* each park for which the satellite-imagery provider returned an image has
\* a satellite image row in the committed store.
C18_FetchedSatelliteIsRecorded ==
    (pc = "idle" /\ finished) =>
        \A k \in 1..Len(parks) :
            provider[parks[k].id].satellite_url # "" =>
                \E n \in 1..Len(db.images) :
                    /\ db.images[n].park_id = parks[k].id
                    /\ db.images[n].type = "satellite"

\* C24: the pipeline never deletes: every park id and every image row of
\* the committed store at the start of a run is still in the committed store
\* when the run has returned.
C24_RerunsNeverDelete ==
    (pc = "idle" /\ finished) =>
        /\ \A p \in atstart.parks : \E q \in db.parks : q.id = p.id
        /\ Len(atstart.images) <= Len(db.images)
        /\ SubSeq(db.images, 1, Len(atstart.images)) = atstart.images

----------------------------------------------------------------------------
(* Part II: claims *)

\* The attempts of the log made against candidate c, in order.
AttemptsOn(c) == SelectSeq(log, LAMBDA e : e.cand = c)

Failed(c) == Cardinality({k \in 1..Len(log) : log[k].cand = c /\ ~log[k].ok})

\* C5: for one logical asset the candidates are tried strictly in list
\* order, a candidate is tried only after every earlier candidate has
\* exhausted its attempts, and after the first success no further candidate
\* and no further attempt is issued for that asset.
C5_CandidatesInOrder ==
    \A k \in 1..Len(log) :
        /\ \A j \in 1..(k - 1) : log[j].cand <= log[k].cand /\ ~log[j].ok
        /\ \A c \in 1..(log[k].cand - 1) :
              Cardinality({j \in 1..(k - 1) : log[j].cand = c /\ ~log[j].ok})
                  = Retries(dscript)

\* The first candidate used up its attempts, the second one succeeded, and
\* the script went on to the next texture.
C5_Witness ==
    /\ Len(log) = Retries(dscript) + 1
    /\ log[Len(log)] = [cand |-> 2, ok |-> TRUE]
    /\ dpc # "attempt"
    /\ NumUrls(dscript, last.tex) > 2

\* C6: download_with_retry makes at most max_retries attempts for one
\* candidate url, returns True at the first attempt that succeeds without
\* making a further attempt, and returns False only after exactly
\* max_retries attempts have all failed.
C6_RetryBudget ==
    dscript = HQ =>
        \A c \in 1..(Len(rets) + 1) :
            LET tries == AttemptsOn(c)
            IN  /\ Len(tries) <= max_retries
                /\ \A k \in 1..(Len(tries) - 1) : ~tries[k].ok
                /\ c > Len(rets) => \A k \in 1..Len(tries) : ~tries[k].ok
                /\ (c <= Len(rets) /\ rets[c]) =>
                      Len(tries) >= 1 /\ tries[Len(tries)].ok
                /\ (c <= Len(rets) /\ ~rets[c]) =>
                      /\ Len(tries) = max_retries
                      /\ \A k \in 1..Len(tries) : ~tries[k].ok

\* One call returned False after max_retries failures, the next returned
\* True at its second attempt.
C6_Witness ==
    /\ dscript = HQ
    /\ rets = <<FALSE, TRUE>>
    /\ Len(AttemptsOn(1)) = max_retries
    /\ Len(AttemptsOn(2)) = 2

\* C7 as claimed: the delay before attempt k+1 is twice the delay before
\* attempt k (2 s, then 4 s, ...), and no delay follows the final failed
\* attempt.
C7_ExponentialBackoff ==
    /\ Len(delays) <= max_retries - 1
    /\ \A k \in 1..Len(delays) :
          delays[k] = IF k = 1 THEN RetryDelay ELSE 2 * delays[k - 1]

\* C7 as amended: the wait between consecutive failed attempts on the same
\* candidate is the constant RetryDelay: one delay of 2 s follows each failed
\* attempt except the final one, and none follows a success.
C7_ConstantDelay ==
    /\ dscript # HQ => delays = <<>>
    /\ (dscript = HQ /\ log # <<>>) =>
          /\ \A k \in 1..Len(delays) : delays[k] = RetryDelay
          /\ Len(delays) = Min(Failed(log[Len(log)].cand), max_retries - 1)

\* All attempts on a candidate failed: two delays of 2 s, none after the
\* last failure.
C7_Witness ==
    /\ dscript = HQ
    /\ delays = <<RetryDelay, RetryDelay>>
    /\ rets # <<>>
    /\ ~rets[Len(rets)]
    /\ Failed(last.cand) = max_retries

\* A step that issues a further attempt for the texture of the last attempt.
FurtherAttempt == Len(log) >= 1 /\ Len(log') = Len(log) + 1

\* C8 as claimed: a candidate that answers 4xx (other than rate-limit) is a
\* permanent failure: the client advances to the next candidate at once and
\* issues no further attempt against that candidate.
C8_NoRetryAfter4xx ==
    [][(FurtherAttempt /\ last.kind = "http404") => last'.cand # last.cand]_vars

\* C8 as amended: a 4xx answer is a failed attempt like any other: the same
\* candidate is attempted again until the script's attempts per candidate
\* (max_retries in download_with_retry, one elsewhere) are used up, and only
\* then does the client advance to the next candidate.
C8_4xxIsOrdinaryFailure ==
    [][/\ last'.kind = "http404" => ~last'.ok
       /\ (FurtherAttempt /\ last.kind = "http404") =>
            IF last.attempt < Retries(dscript)
            THEN last'.cand = last.cand /\ last'.attempt = last.attempt + 1
            ELSE last'.cand = last.cand + 1 /\ last'.attempt = 1]_vars

\* An attempt was issued against a candidate right after it answered 404.
C8_Witness ==
    /\ last.after = "http404"
    /\ last.attempt >= 2

\* C9: a response with success status whose payload is smaller than the
\* minimum byte-size threshold is a failed attempt: the download is not
\* reported as successful.
C9_SmallPayloadIsFailure ==
    last.ok => last.size >= MinGoodSize

\* C10: a download whose stream is cut short is a failure, and a file the
\* scripts accept as already acquired (skip because it exists) is always the
\* complete payload of one successful download.
C10_AcceptedFileIsComplete ==
    /\ last.kind = "cut" => ~last.ok
    /\ (dpc = "head" /\ Skips(dscript, files[tex])) => files[tex].whole

\* C13: if every configured source of a texture layer failed in a run, then
\* when the run has ended the file of that layer is a procedurally generated
\* one, and not a file obtained from a source.
C13_ExhaustionTriggersSynthesis ==
    (dpc = "idle" /\ druns > 0) =>
        \A t \in exhausted : files[t].exists /\ t \in synthetic

\* The first candidate answered 404 at every attempt and the second one
\* delivered a whole payload of good size at its first attempt.
PrimaryPermanentSecondaryValid ==
    /\ primary = "permanent"
    /\ last.cand = 2
    /\ last.attempt = 1
    /\ last.kind = "ok"
    /\ last.size >= MinGoodSize

\* C14: if the primary source of a layer fails with a permanent fetch error
\* and the secondary returns a valid payload, the file of that layer is the
\* secondary's payload, it was written exactly once in the run, and no
\* further candidate is tried.
C14_FallbackRecordsSecondary ==
    PrimaryPermanentSecondaryValid =>
        /\ files[last.tex] = File(last.size, TRUE)
        /\ last.tex \notin synthetic
        /\ writes = 1
        /\ dpc # "attempt"

\* download_with_retry got three 404 answers from the first url and the
\* whole file from the second.
C14_Witness ==
    /\ PrimaryPermanentSecondaryValid
    /\ dscript = HQ
    /\ Len(log) = max_retries + 1
    /\ files[last.tex].size = last.size

\* The file of texture t is one the running script takes as already there:
\* larger than 100000 bytes in fetch_hq_earth_textures, of any size in
\* fetch_earth_textures.
Accepted(t) ==
    /\ files[t].exists
    /\ \/ dscript = BASIC
       \/ dscript = HQ /\ files[t].size > MinGoodSize

\* C28: a texture file that already exists and passes the script's size check
\* is skipped: no request is issued for it, the loop goes to the next texture
\* and the file at its destination path stays as it is.
C28_ExistingTextureIsSkipped ==
    [][(dpc = "head" /\ Accepted(tex)) =>
          /\ files' = files
          /\ log' = <<>>
          /\ dpc' # "attempt"
          /\ tex' = tex + 1]_vars

\* In a second run the first texture was skipped with its file of the first
\* run in place, and the loop stands at the second texture.
C28_Witness ==
    /\ dscript \in {HQ, BASIC}
    /\ druns = 2
    /\ dpc = "head"
    /\ tex = 2
    /\ log = <<>>
    /\ Accepted(1)

----------------------------------------------------------------------------
(* Part III: claims *)

\* The asset type each provider delivers.
TypeOf(p) ==
    CASE p = "nasa" -> "satellite"
      [] p = "nps" -> "nps"
      [] OTHER -> "photo"

\* The image rows of a park in the committed store.
RowsOf(pid) == SelectSeq(fdb.images, LAMBDA r : r.park_id = pid)

\* C11: the failure of provider calls for one entity does not abort the
\* run: the run ends early only when the store refuses a write, the
\* entities are saved one after the other in list order whatever failed
\* before, a saved entity gets no row of an asset type whose provider
\* failed, and a run that was not stopped by the store has saved every
\* entity of the list.
C11_ProviderFailureDoesNotAbort ==
    /\ fpc = "aborted" => (saves # <<>> /\ ~saves[Len(saves)].ok)
    /\ \A n \in 1..Len(saves) :
          /\ n <= Len(fparks)
          /\ saves[n].park = fparks[n].id
          /\ saves[n].ok => \E row \in fdb.parks : row.id = saves[n].park
    /\ (saves # <<>> /\ saves[Len(saves)].ok) =>
          /\ RowsOf(saves[Len(saves)].park) = saved.rows
          /\ \A p \in saved.failed, k \in 1..Len(saved.rows) :
                saved.rows[k].type # TypeOf(p)
    /\ fpc = "done" =>
          /\ Len(saves) = Len(fparks)
          /\ \A n \in 1..Len(saves) : saves[n].ok

\* Every provider call for the first park raised, the park was saved without
\* image rows, and the second park was fetched and saved with its images.
C11_Witness ==
    /\ fscript = WORLD
    /\ fpc = "done"
    /\ Len(saves) = 2
    /\ fparks[1].us /\ fparks[2].us
    /\ saves[1].ok /\ RowsOf(fparks[1].id) = <<>>
    /\ saves[2].ok /\ saved.failed = {} /\ Len(saved.rows) >= 3
    /\ \A p \in Providers : calls[p] > api_calls[p] /\ api_calls[p] > 0

\* C12: a store write failure while saving one entity is retried once, and
\* if the retry fails too the entity is reported failed and the run goes on
\* with the next entity: the run is never aborted, after a failed save the
\* same entity is saved once more, and a finished run has tried every
\* entity.
C12_StoreFailureRetriedThenSkipped ==
    /\ fpc # "aborted"
    /\ fpc = "done" =>
          /\ \A k \in 1..Len(fparks) :
                \E n \in 1..Len(saves) : saves[n].park = fparks[k].id
          /\ \A n \in 1..Len(saves) :
                (~saves[n].ok /\ (n = 1 \/ saves[n - 1].park # saves[n].park)) =>
                    (n < Len(saves) /\ saves[n + 1].park = saves[n].park)

\* C15: at every point of a run each counter of api_calls equals the number
\* of HTTP calls issued to that provider so far, the calls that failed or
\* raised included.
C15_CountersCountEveryCall ==
    fscript = WORLD => \A p \in Providers : api_calls[p] = calls[p]

\* C16: between two consecutive HTTP calls to the same provider class at
\* least RATE_LIMIT_DELAY seconds pass.
C16_MinIntervalBetweenCalls ==
    \A h \in Hosts : mingap[h] >= RATE_LIMIT_DELAY(fscript)

\* The orchestrator is inside the loop body of park fi.
Fetching == fpc \in {"nasa", "imagery", "nps", "unsplash", "save"}

\* The first n entities of the list have been saved, one save each, in list
\* order, and their park rows are in the committed store.
SavedInOrder(n) ==
    \A k \in 1..n :
        /\ saves[k].ok
        /\ saves[k].park = fparks[k].id
        /\ \E row \in fdb.parks : row.id = fparks[k].id

C27_ValidatedOnlyWhenLocated ==
    (fscript = WORLD /\ fpc \in {"nasa", "done"} /\ saves # <<>>) =>
        \A r \in fdb.parks :
            (r.id = saves[Len(saves)].park /\ r.nasa_validated) =>
                lookup = "found"

\* The Unsplash search of the current park has been issued.
Requested == fpc = "save" \/ (fscript = MVP /\ fpc \in {"nps", "imagery"})

\* C29: the number of Unsplash photos requested for a park is 5 - n for n
\* NPS images obtained (n = 0 for a park outside the United States) and 1
\* when that would be less than 1, so the two together are at least 5 and at
\* least one photo is requested.
C29_PhotoCountCompletesFive ==
    Requested =>
        LET n == Len(fargs.nps_images)
        IN  /\ ~fparks[fi].us => n = 0
            /\ IF n < TotalImages
               THEN photo_count = TotalImages - n
               ELSE photo_count = 1
            /\ n + photo_count >= TotalImages
            /\ photo_count >= 1

\* NPS gave five images for a park, and one photo was asked of Unsplash; the
\* park is about to be saved with six images or fewer.
C29_Witness ==
    /\ fscript = WORLD
    /\ fpc = "save"
    /\ Len(fargs.nps_images) = MaxNpsImages
    /\ photo_count = 1
    /\ Len(fargs.unsplash_photos) = 1

----------------------------------------------------------------------------
(* Part IV: claims *)

----------------------------------------------------------------------------
(* Part V: claims *)

\* The payload whose derivatives are in derivs.
Source == payloads[pk - 1]

\* C22: every resized derivative is no wider and no higher than its preset's
\* configured maximum and than the source itself, and keeps the source's
\* aspect ratio within one pixel of rounding.
C22_ResizeNeverEnlarges ==
    \A k \in 1..Len(derivs) :
        LET d == derivs[k]
        IN  /\ d.width <= d.box[1]
            /\ d.box[2] > 0 => d.height <= d.box[2]
            /\ d.width <= Source.width
            /\ d.height <= Source.height
            /\ Abs(d.width * Source.height - d.height * Source.width)
                  < Max(Source.width, Source.height)

\* C23: a corrupt or undecodable payload is not fatal: it ends no run, no
\* asset is recorded for it, and a run that came to its end has recorded
\* every payload that decodes.
C23_CorruptPayloadIsNotFatal ==
    /\ ppc = "aborted" => payloads[pk].decodes
    /\ \A k \in recorded : payloads[k].decodes
    /\ ppc = "done" =>
          \A k \in 1..Len(payloads) : payloads[k].decodes => k \in recorded

----------------------------------------------------------------------------
(* Part VI: claims *)

\* C26: the procedural textures are only a fallback: when a run has ended,
\* every texture whose download succeeds has been requested in that run and
\* the file at its destination is the downloaded one.
C26_DownloadReplacesProcedural ==
    (vpc = "idle" /\ vruns > 0) =>
        \A k \in 1..Len(V2Textures) :
            V2Textures[k] \in vserver =>
                /\ V2Textures[k] \in attempted
                /\ vfiles[Dest(V2Textures[k])] = V2Downloaded

----------------------------------------------------------------------------
(* Part VII: claims *)

\* C25: for every initial state of the four fallback textures (absent, below
\* 10000 bytes, or present with at least 10000 bytes) fix_textures completes
\* without error, and afterwards all four files exist.  earth_day.jpg is
\* taken to be absent or an image.
C25_FixTexturesEnsuresAll ==
    xday # "corrupt" =>
        /\ xpc # "aborted"
        /\ xpc = "done" => \A n \in FixNames : xfiles[n].exists

----------------------------------------------------------------------------
(* Part VIII: claims *)

\* C21: after each blob the alpha of every pixel the blob covers equals
\* min(255, previous alpha + the blob's alpha); the 8-bit sum does not wrap
\* modulo 256 before the clamp.
C21_CloudAlphaSaturates ==
    cblob # <<>> =>
        \A px \in Pixels :
            InBlob(cblob[Len(cblob)], px) =>
                clouds[px] = Min(ChannelMax,
                                 cprev[px]
                                   + BlobAlpha(cgen, cblob[Len(cblob)], px))

----------------------------------------------------------------------------
(* Part IX: claims *)

\* The first n of the parks the filters keep (none for n below 0).
FirstN(n) ==
    {k \in Kept(app, listing, request) :
        Cardinality({j \in Kept(app, listing, request) : j <= k}) <= n}

\* C30: GET /api/parks with limit = n returns at most n parks, for every
\* integer n including 0 and the negative ones, and they are the first n
\* parks of the filtered result in listing order.
C30_LimitCapsTheListing ==
    request.limit # <<>> =>
        /\ Cardinality(response) <= Max(0, request.limit[1])
        /\ response = FirstN(request.limit[1])

====
